---- MODULE Spec2Model ----
(***************************************************************************)
(* Model of custom_components/zoom_fork/common.py: the webhook view        *)
(* (ZoomWebhookRequestView.post) and the two polling coordinators.         *)
(*                                                                         *)
(* Reading of the source.  The file as it stands is not accepted by the    *)
(* Python parser (line 147: an `else:` clause follows the `try:` suite     *)
(* before any `except`, and the `except` of line 151 sits at the           *)
(* indentation of the `if` of line 128).  The model keeps every statement  *)
(* in the block its indentation puts it in and gives every clause its      *)
(* Python meaning:                                                         *)
(*   - lines 130-146 are the try suite; every path through it ends in a    *)
(*     `return` (142, 145, 146) or raises;                                 *)
(*   - lines 147-150 are the try statement's `else` clause, run only when  *)
(*     the suite runs off its end;                                         *)
(*   - lines 151-156 handle an exception of the try suite;                 *)
(*   - line 157 (12 columns, like the `if` of line 128) is the statement   *)
(*     after the `if` in the body of the `for` of line 127.                *)
(* Python values are tagged records, dicts are functions on strings.       *)
(***************************************************************************)
EXTENDS Integers, Sequences, FiniteSets, TLC

\* ------------------------------------------------------------ Python values
None == [t |-> "None"]
Str(s) == [t |-> "str", s |-> s]
Num(n) == [t |-> "int", n |-> n]
Dict(m) == [t |-> "dict", m |-> m]
List(l) == [t |-> "list", l |-> l]
EmptyDict == Dict([k \in {} |-> None])

\* bool(v) of a Python value
Truthy(v) ==
    CASE v.t = "None" -> FALSE
      [] v.t = "str" -> v.s # ""
      [] v.t = "int" -> v.n # 0
      [] v.t = "dict" -> DOMAIN v.m # {}
      [] v.t = "list" -> v.l # <<>>

\* outcomes of evaluating a piece of code
Value(v) == [k |-> "value", v |-> v]
Raise(e) == [k |-> "raise", exc |-> e]
Return(r) == [k |-> "return", resp |-> r]
Complete(d) == [k |-> "complete", data |-> d]

\* obj.get(key, default): only a dict has .get
Get(obj, key, default) ==
    IF obj.t # "dict" THEN Raise("AttributeError")
    ELSE IF key \in DOMAIN obj.m THEN Value(obj.m[key]) ELSE Value(default)

\* ------------------------------------------------------------ bounds and inputs
MaxHeaders == 2
MaxEvents == 2
MaxCalls == 2

Conns == {"c1"}
HeaderValues == {"tokA", "tokB", "bad"}
TokenSets == {{}, {"tokA"}, {"tokA", "tokB"}}
Secrets == {None, Str("s3cret"), Str("other")}

SeqsUpTo(S, n) == UNION {[1..m -> S] : m \in 0..n}
HeaderLists == SeqsUpTo(HeaderValues, MaxHeaders)

URL_VALIDATION == "endpoint.url_validation"

\* request bodies: text that is no JSON, or a JSON document
NotJson == [json |-> FALSE]
Json(v) == [json |-> TRUE, data |-> v]
Handshake(payload) == Json(Dict([event |-> Str(URL_VALIDATION), payload |-> payload]))
Bodies ==
    { NotJson,
      Json(List(<<>>)),
      Json(EmptyDict),
      Json(Dict([event |-> Str(URL_VALIDATION)])),
      Handshake(Dict([plainToken |-> Str("abc")])),
      Handshake(Dict([plainToken |-> Str("xyz")])),
      Handshake(Dict([plainToken |-> Str("")])),
      Handshake(Dict([plainToken |-> Num(7)])),
      Handshake(EmptyDict),
      Handshake(Str("text")),
      Json(Dict([event |-> Str("meeting.started"), payload |-> Dict([id |-> Str("m1")])])),
      Json(Dict([event |-> Str("meeting.started"), payload |-> EmptyDict,
                 token |-> Str("spoof")])) }

\* ------------------------------------------------------------ responses
NoBody == [t |-> "empty"]
Response(status, body, content_type) ==
    [status |-> status, body |-> body, content_type |-> content_type]
ResponseOK == Response(200, NoBody, None)
ResponseUnauthorized == Response(401, NoBody, None)

\* hmac.new(secret, msg, hashlib.sha256).hexdigest(): the digest is kept as the
\* term of its key and message (a deterministic function of the two, distinct
\* for distinct inputs)
HmacSha256Hex(secret, msg) == [alg |-> "hmac-sha256-hex", key |-> secret, msg |-> msg]

VARIABLES
    verification_tokens,   \* hass.data[DOMAIN][VERIFICATION_TOKENS]
    entry_secret,          \* config entry's CONF_VERIFICATION_TOKEN (None: no entry / no key)
    conn,                  \* per connection: the post() call in flight
    bus,                   \* events fired on hass.bus, in order
    contact_types,         \* ZoomContactListDataUpdateCoordinator._contact_types
    profile,               \* the user profile coordinator
    contacts,              \* the contact list coordinator
    hass_urls,             \* the addresses configured for the instance
    redirect,              \* the last read of ZoomOAuth2Implementation.redirect_uri
    valid_url              \* the last call of valid_external_url

wvars == <<verification_tokens, entry_secret, conn, bus>>
pvars == <<contact_types, profile, contacts>>
rvars == <<hass_urls, redirect, valid_url>>
vars == <<verification_tokens, entry_secret, conn, bus, contact_types, profile, contacts,
          hass_urls, redirect, valid_url>>

Idle == [pc |-> "idle"]

\* ------------------------------------------------------------ ZoomWebhookRequestView.post

\* line 128: not verification_tokens or (token and token in verification_tokens)
IfCond(token, vt) == vt = {} \/ (token # "" /\ token \in vt)

\* line 146: the return that ends the try suite for every non-handshake body
Line146(data) == Return(ResponseOK)

\* lines 130-146: the try suite; it returns or raises, it never runs off its end
\* a try suite that only parses the body: no branch of lines 132-146 returns
TrySuite_falls_through(body, secret_token) ==
    IF ~body.json THEN Raise("JSONDecodeError") ELSE Complete(body.data)

TrySuite(body, secret_token) ==
    IF ~body.json THEN Raise("JSONDecodeError")                                  \* 130
    ELSE LET data == body.data
             event == Get(data, "event", None)                                   \* 131
         IN  IF event.k = "raise" THEN event
             ELSE IF event.v.t = "str" /\ event.v.s = URL_VALIDATION
             THEN LET payload == Get(data, "payload", EmptyDict)                 \* 132
                      plain_token == IF payload.k = "raise" THEN payload
                                     ELSE Get(payload.v, "plainToken", None)
                  IN  IF plain_token.k = "raise" THEN plain_token
                      ELSE IF Truthy(plain_token.v) /\ Truthy(secret_token)      \* 133
                      THEN IF plain_token.v.t # "str"
                           THEN Raise("AttributeError")                          \* 134: .encode
                           ELSE Return(Response(200,                             \* 136-142
                                    [plainToken |-> plain_token.v.s,
                                     encryptedToken |->
                                         HmacSha256Hex(secret_token.s, plain_token.v.s)],
                                    "application/json"))
                      ELSE Return(ResponseUnauthorized)                          \* 145
             ELSE Line146(data)

\* const.WEBHOOK_RESPONSE_SCHEMA: an open mapping that requires an event name
WEBHOOK_RESPONSE_SCHEMA(data) ==
    IF data.t = "dict" /\ "event" \in DOMAIN data.m /\ data.m["event"].t = "str"
    THEN Value(data)
    ELSE Raise("Invalid")

\* line 150: {**status, "token": token}
MergeToken(status, token) ==
    [k \in DOMAIN status.m \cup {"token"} |-> IF k = "token" THEN Str(token) ELSE status.m[k]]

\* lines 147-150: the else clause of the try statement
TryElse(data, token) ==
    LET status == WEBHOOK_RESPONSE_SCHEMA(data)
    IN  IF status.k = "raise" THEN status ELSE Value(MergeToken(status.v, token))

\* line 157: the statement after the `if` of line 128 in the body of the for loop;
\* `next` is what the next iteration of the loop would do
Line157(next) == Return(ResponseOK)

\* lines 127-128, 157: the loop over the Authorization values, up to the first
\* value that enters the try statement
RECURSIVE ForLoop(_, _, _)
ForLoop(tokens, i, vt) ==
    IF i > Len(tokens) THEN [k |-> "exhausted"]
    ELSE IF IfCond(tokens[i], vt) THEN [k |-> "try", i |-> i]
    ELSE Line157(ForLoop(tokens, i + 1, vt))

\* line 121: headers.getall("authorization") of a multidict raises KeyError when
\* the request carries no such header
GetAll(headers) == IF headers = <<>> THEN Raise("KeyError") ELSE Value(headers)

Call(headers, body, vt, secret) ==
    [pc |-> "start", headers |-> headers, body |-> body, vt |-> vt,
     secret_token |-> secret, entered |-> FALSE, token |-> "", exc |-> "",
     result |-> None, fired |-> <<>>]

Done(call, result) == [call EXCEPT !.pc = "done", !.result = result]

\* spec 4.1 step 2: which requests count as authenticated
Authenticated(call) ==
    call.vt = {} \/ \E i \in 1..Len(call.headers) : call.headers[i] \in call.vt

EventName(body) ==
    IF body.json /\ body.data.t = "dict" /\ "event" \in DOMAIN body.data.m
    THEN body.data.m["event"] ELSE None

IsHandshake(body) == EventName(body) = Str(URL_VALIDATION)

SchemaValidEvent(body) ==
    body.json /\ WEBHOOK_RESPONSE_SCHEMA(body.data).k = "value" /\ ~IsHandshake(body)

\* lines 112-128: the call up to its first suspension point
PostStart(c, headers, body) ==
    /\ conn[c].pc = "idle"
    /\ Len(bus) < MaxEvents
    /\ LET call == Call(headers, body, verification_tokens, entry_secret)       \* 114-119
           tokens == GetAll(headers)                                             \* 121
       IN  /\ IF tokens.k = "raise"
              THEN conn' = [conn EXCEPT ![c] = Done(call, tokens)]
              ELSE LET loop == ForLoop(tokens.v, 1, call.vt)
                   IN  conn' = [conn EXCEPT ![c] =
                        CASE loop.k = "try" ->
                                 [call EXCEPT !.pc = "json", !.entered = TRUE,
                                              !.token = tokens.v[loop.i]]
                          [] loop.k = "return" -> Done(call, loop)
                          [] loop.k = "exhausted" ->                             \* 159-161
                                 [call EXCEPT !.pc = "text"]]
    /\ UNCHANGED <<verification_tokens, entry_secret, bus>>
    /\ UNCHANGED <<pvars, rvars>>

\* lines 130-150 and 157: the body has been read
\* a handler that reads the entry's secret again when it signs
SecretAtUse_reread(call) == entry_secret

\* line 133/135: secret_token is the local bound at line 119
SecretAtUse(call) == call.secret_token

PostJson(c) ==
    /\ conn[c].pc = "json"
    /\ LET call == conn[c]
           suite == TrySuite(call.body, SecretAtUse(call))
       IN  CASE suite.k = "return" ->
                    /\ conn' = [conn EXCEPT ![c] = Done(call, suite)]
                    /\ bus' = bus
             [] suite.k = "raise" ->                                             \* 151-154
                    /\ conn' = [conn EXCEPT ![c] = [call EXCEPT !.pc = "text",
                                                                !.exc = suite.exc]]
                    /\ bus' = bus
             [] suite.k = "complete" ->
                    LET ev == TryElse(suite.data, call.token)
                    IN  IF ev.k = "raise"
                        THEN /\ conn' = [conn EXCEPT ![c] = Done(call, ev)]
                             /\ bus' = bus
                        ELSE /\ bus' = Append(bus, ev.v)                         \* 150
                             /\ conn' = [conn EXCEPT ![c] =
                                    [Done(call, Return(ResponseOK))              \* 157
                                        EXCEPT !.fired = <<ev.v>>]]
    /\ UNCHANGED <<verification_tokens, entry_secret>>
    /\ UNCHANGED <<pvars, rvars>>

\* lines 152-157 and 159-164: request.text() has been read, the warning is
\* logged and the call returns 200
PostText(c) ==
    /\ conn[c].pc = "text"
    /\ conn' = [conn EXCEPT ![c] = Done(conn[c], Return(ResponseOK))]
    /\ UNCHANGED <<verification_tokens, entry_secret, bus>>
    /\ UNCHANGED <<pvars, rvars>>

\* the response (or the error) has gone out; the connection takes the next request
Deliver(c) ==
    /\ conn[c].pc = "done"
    /\ conn' = [conn EXCEPT ![c] = Idle]
    /\ UNCHANGED <<verification_tokens, entry_secret, bus>>
    /\ UNCHANGED <<pvars, rvars>>

\* reconfiguration replaces the token set and the secret as a whole
Reconfigure(ts, s) ==
    /\ <<ts, s>> # <<verification_tokens, entry_secret>>
    /\ verification_tokens' = ts
    /\ entry_secret' = s
    /\ UNCHANGED <<conn, bus>>
    /\ UNCHANGED <<pvars, rvars>>

WebhookInit ==
    /\ verification_tokens = {}
    /\ entry_secret = None
    /\ conn = [c \in Conns |-> Idle]
    /\ bus = <<>>

WebhookNext ==
    \/ \E c \in Conns, h \in HeaderLists, b \in Bodies : PostStart(c, h, b)
    \/ \E c \in Conns : PostJson(c)
    \/ \E c \in Conns : PostText(c)
    \/ \E c \in Conns : Deliver(c)
    \/ \E ts \in TokenSets, s \in Secrets : Reconfigure(ts, s)

\* ------------------------------------------------------------ the API the coordinators poll

ContactTypeLists == {<<"external">>, <<"external", "internal">>}
ContactTypeNames == {"external", "internal"}

ItemA == [email |-> "a@example.org"]
ItemB == [email |-> "b@example.org", contact_type |-> "company"]
ItemC == [email |-> "c@example.org"]

\* the pages the list endpoint holds for one contact type; every page but the
\* last carries a next_page_token
PageLists == { << <<ItemA, ItemB>>, <<ItemC>> >>, << <<ItemC>> >>, << <<>> >> }

\* an API: the pages of each contact type, and the number of the list call it
\* answers with HTTP 401 (0: none)
ContactApis == [pages : [ContactTypeNames -> PageLists], unauthorized_at : 0..MaxCalls]

Profiles == {Dict([id |-> Str("u1")]), Dict([id |-> Str("u2")])}
ProfileAnswers == {Value(p) : p \in Profiles} \cup {Raise("ClientError"), Raise("TimeoutError")}

\* ------------------------------------------------------------ coordinators

\* the names bound in the module's namespace: its imports (lines 3-27) and its
\* own definitions (29, 32, 51, 64, 102, 167, 189)
ModuleNames ==
    { "timedelta", "HTTPStatus", "getLogger", "Any", "Dict", "List", "Request",
      "Response", "HomeAssistantView", "HomeAssistant", "config_entry_oauth2_flow",
      "NoURLAvailableError", "get_url", "DataUpdateCoordinator", "UpdateFailed",
      "ZoomAPI", "DOMAIN", "HA_URL", "HA_ZOOM_EVENT", "VERIFICATION_TOKENS",
      "WEBHOOK_RESPONSE_SCHEMA", "CONF_VERIFICATION_TOKEN", "hmac", "hashlib", "json",
      "_LOGGER", "valid_external_url", "get_contact_name", "ZoomOAuth2Implementation",
      "ZoomWebhookRequestView", "ZoomUserProfileDataUpdateCoordinator",
      "ZoomContactListDataUpdateCoordinator" }

\* reading a name that is neither local nor bound in the module raises NameError
LoadGlobal(name) == IF name \in ModuleNames THEN Value(name) ELSE Raise("NameError")

\* a variant of lines 185-186 that swallows the error and returns nothing
Profile_async_update_data_swallow(answer) ==
    IF answer.k = "raise" THEN Value(None) ELSE answer

\* a variant of lines 185-186 that lets the error of the API call through
Profile_async_update_data_reraise(answer) == answer

\* lines 181-186
Profile_async_update_data(answer) ==
    IF answer.k = "raise" THEN Raise("UpdateFailed") ELSE answer

\* lines 209-237, the try suite: the list calls it issues and its outcome.  With a
\* contact type configured, line 211 sets next_page_token = None, the left operand
\* of the loop condition (212) holds and its right operand (213) reads `limit`;
\* with none configured, line 235 reads `limit`.  Nothing before that read can
\* fail or suspend, so the outcome of the suite is the outcome of the read.
ContactList_TrySuite(types, api) ==
    [calls |-> <<>>, out |-> LoadGlobal("limit")]

\* lines 206-239
ContactList_async_update_data(types, api) ==
    LET suite == ContactList_TrySuite(types, api)
    IN  IF suite.out.k = "raise"
        THEN [calls |-> suite.calls, out |-> Raise("UpdateFailed")]              \* 238-239
        ELSE suite

\* homeassistant's DataUpdateCoordinator refresh: a result replaces data, an
\* UpdateFailed keeps data and clears last_update_success
AsyncRefresh(coord, out) ==
    IF out.k = "value"
    THEN [coord EXCEPT !.data = out.v, !.last_update_success = TRUE]
    ELSE [coord EXCEPT !.last_update_success = FALSE]

\* the Scheduler starts a profile refresh: line 184 awaits the API
ProfileRefreshStart ==
    /\ profile.pc = "idle"
    /\ profile' = [profile EXCEPT !.pc = "fetching"]
    /\ UNCHANGED <<contact_types, contacts>>
    /\ UNCHANGED <<wvars, rvars>>

\* the API has answered (or failed): lines 184-186, then the base class
ProfileRefreshEnd(answer) ==
    /\ profile.pc = "fetching"
    /\ profile' = [AsyncRefresh(profile, Profile_async_update_data(answer))
                       EXCEPT !.pc = "idle",
                              !.out = Profile_async_update_data(answer),
                              !.refreshed = TRUE,
                              !.fetch_failed = (answer.k = "raise"),
                              !.good = IF answer.k = "value" THEN answer.v ELSE @]
    /\ UNCHANGED <<contact_types, contacts>>
    /\ UNCHANGED <<wvars, rvars>>

\* one contact list refresh against an API
ContactRefresh(api) ==
    /\ LET r == ContactList_async_update_data(contact_types, api)
       IN  contacts' = [AsyncRefresh(contacts, r.out)
                            EXCEPT !.refreshed = TRUE,
                                   !.api = api,
                                   !.calls = r.calls,
                                   !.out = r.out,
                                   !.fetch_failed = (r.out.k = "raise"),
                                   !.good = IF r.out.k = "value" THEN r.out.v ELSE @]
    /\ UNCHANGED <<contact_types, profile>>
    /\ UNCHANGED <<wvars, rvars>>

NoApi == [pages |-> [t \in ContactTypeNames |-> <<>>], unauthorized_at |-> 0]

PollInit ==
    /\ contact_types \in ContactTypeLists
    /\ profile = [pc |-> "idle", data |-> None, last_update_success |-> TRUE,
                  refreshed |-> FALSE, fetch_failed |-> FALSE, good |-> None,
                  out |-> None]
    /\ contacts = [data |-> None, last_update_success |-> TRUE, refreshed |-> FALSE,
                   fetch_failed |-> FALSE, good |-> None,
                   api |-> NoApi, calls |-> <<>>, out |-> None]

PollNext ==
    \/ ProfileRefreshStart
    \/ \E answer \in ProfileAnswers : ProfileRefreshEnd(answer)
    \/ \E api \in ContactApis : ContactRefresh(api)

\* ------------------------------------------------------------ redirect_uri

InternalUrls == {None, Str("http://192.168.1.10:8123"), Str("http://ha.local:8123")}
ExternalUrls == {None, Str("https://ha.example.org"), Str("https://home.example.net")}
CloudUrls == {None, Str("https://abc.ui.nabu.casa"), Str("https://xyz.ui.nabu.casa")}
UrlConfigs == [internal : InternalUrls, external : ExternalUrls, cloud : CloudUrls]

\* config_entry_oauth2_flow.AUTH_CALLBACK_PATH
AUTH_CALLBACK_PATH == "/auth/external/callback"

\* homeassistant.helpers.network.get_url: the relay (cloud) address first when it
\* is preferred, then the internal address when allowed, then the external one,
\* then the relay address; NoURLAvailableError when none is left
GetUrl(cfg, allow_internal, prefer_cloud) ==
    IF prefer_cloud /\ cfg.cloud # None THEN Value(cfg.cloud.s)
    ELSE IF allow_internal /\ cfg.internal # None THEN Value(cfg.internal.s)
    ELSE IF cfg.external # None THEN Value(cfg.external.s)
    ELSE IF cfg.cloud # None THEN Value(cfg.cloud.s)
    ELSE Raise("NoURLAvailableError")

\* a variant of line 98 that calls get_url(self.hass) with its default flags
redirect_uri_default_flags(cfg) ==
    LET url == GetUrl(cfg, TRUE, FALSE)
    IN  IF url.k = "raise" THEN url ELSE Value(<<url.v, AUTH_CALLBACK_PATH>>)

\* lines 95-99; the f-string is kept as the pair of its two parts
redirect_uri(cfg) ==
    LET url == GetUrl(cfg, FALSE, TRUE)                                          \* 98
    IN  IF url.k = "raise" THEN url ELSE Value(<<url.v, AUTH_CALLBACK_PATH>>)    \* 99

\* lines 32-48
valid_external_url(cfg) == GetUrl(cfg, FALSE, TRUE).k # "raise"

\* the addresses of the instance change (reconfiguration, dynamic DNS)
SetUrls(cfg) ==
    /\ cfg # hass_urls
    /\ hass_urls' = cfg
    /\ UNCHANGED <<redirect, valid_url>>
    /\ UNCHANGED <<wvars, pvars>>

\* the property is read: it resolves the address anew on every access
ReadRedirectUri ==
    /\ redirect' = [read |-> TRUE, cfg |-> hass_urls, out |-> redirect_uri(hass_urls)]
    /\ UNCHANGED <<hass_urls, valid_url>>
    /\ UNCHANGED <<wvars, pvars>>

\* setup asks whether an external address is available
CheckExternalUrl ==
    /\ valid_url' = [read |-> TRUE, cfg |-> hass_urls, out |-> valid_external_url(hass_urls)]
    /\ UNCHANGED <<hass_urls, redirect>>
    /\ UNCHANGED <<wvars, pvars>>

NoUrls == [internal |-> None, external |-> None, cloud |-> None]

ResolveInit ==
    /\ hass_urls = NoUrls
    /\ redirect = [read |-> FALSE, cfg |-> NoUrls, out |-> None]
    /\ valid_url = [read |-> FALSE, cfg |-> NoUrls, out |-> FALSE]

ResolveNext ==
    \/ \E cfg \in UrlConfigs : SetUrls(cfg)
    \/ ReadRedirectUri
    \/ CheckExternalUrl

Init == WebhookInit /\ PollInit /\ ResolveInit

WebhookSpec == Init /\ [][WebhookNext]_vars
PollSpec == Init /\ [][PollNext]_vars
ResolveSpec == Init /\ [][ResolveNext]_vars

Next == WebhookNext \/ PollNext \/ ResolveNext
Spec == Init /\ [][Next]_vars

\* ------------------------------------------------------------ webhook claims

\* payload.plainToken of a handshake body (None: there is none)
PlainToken(body) ==
    LET d == body.data.m
    IN  IF "payload" \in DOMAIN d /\ d["payload"].t = "dict"
           /\ "plainToken" \in DOMAIN d["payload"].m
        THEN d["payload"].m["plainToken"] ELSE None

Finished(c) == conn[c].pc = "done"

\* C1: an authenticated, schema-valid non-handshake event is published exactly
\* once, as the body's fields with token = the matching Authorization value, and
\* answered 200 with an empty body (stated for the requests that entered the
\* authorized branch)
C1_PublishesExactlyOneEvent ==
    \A c \in Conns :
        (Finished(c) /\ conn[c].entered /\ SchemaValidEvent(conn[c].body)) =>
            /\ conn[c].result = Return(ResponseOK)
            /\ \E i \in 1..Len(conn[c].headers) :
                   /\ IfCond(conn[c].headers[i], conn[c].vt)
                   /\ conn[c].fired = <<MergeToken(conn[c].body.data, conn[c].headers[i])>>

\* C2: with a non-empty token set, a request that carries Authorization values is
\* processed as authenticated exactly when one of the values, at any position,
\* is in the set
C2_AnyPositionAuthenticates ==
    \A c \in Conns :
        (Finished(c) /\ conn[c].vt # {} /\ conn[c].headers # <<>>) =>
            (conn[c].entered <=>
                \E i \in 1..Len(conn[c].headers) : conn[c].headers[i] \in conn[c].vt)

\* C3: a request whose Authorization values are all outside a non-empty token
\* set is answered 200 with an empty body and publishes nothing
C3_MismatchIsSilent200 ==
    \A c \in Conns :
        (Finished(c) /\ conn[c].vt # {}
           /\ \A i \in 1..Len(conn[c].headers) : conn[c].headers[i] \notin conn[c].vt) =>
            /\ conn[c].result = Return(ResponseOK)
            /\ conn[c].fired = <<>>

\* C4: with an empty token set every request, also one without Authorization
\* values, goes through the authenticated branch
C4_EmptySetAuthenticatesAll ==
    \A c \in Conns :
        (Finished(c) /\ conn[c].vt = {}) => conn[c].entered

\* C5: an authenticated handshake with plain token p and secret s is answered
\* 200, application/json, {plainToken: p, encryptedToken: hex(HMAC_SHA256(s, p))}
C5_HandshakeAnswered ==
    \A c \in Conns :
        LET call == conn[c]
            p == PlainToken(call.body)
        IN  (Finished(c) /\ Authenticated(call) /\ IsHandshake(call.body)
               /\ p.t = "str" /\ p.s # "" /\ call.secret_token # None) =>
                call.result = Return(Response(200,
                    [plainToken |-> p.s,
                     encryptedToken |-> HmacSha256Hex(call.secret_token.s, p.s)],
                    "application/json"))

\* C6: the answer is 401 exactly for an authenticated handshake whose plain token
\* or secret is missing; a request that is no authenticated handshake is
\* answered 200 with an empty body
C6_Only401ForIncompleteHandshake ==
    \A c \in Conns :
        LET call == conn[c]
            incomplete == /\ Authenticated(call)
                          /\ IsHandshake(call.body)
                          /\ (~Truthy(PlainToken(call.body)) \/ call.secret_token = None)
        IN  Finished(c) =>
                /\ (call.result = Return(ResponseUnauthorized)) <=> incomplete
                /\ ~(Authenticated(call) /\ IsHandshake(call.body)) =>
                       call.result = Return(ResponseOK)

\* ------------------------------------------------------------ coordinator claims

RECURSIVE Concat(_)
Concat(ss) == IF ss = <<>> THEN <<>> ELSE Head(ss) \o Concat(Tail(ss))

\* spec 4.6: the item stamped with its partition
Stamp(item, type) ==
    [k \in DOMAIN item \cup {"contact_type"} |->
        IF k = "contact_type" THEN type ELSE item[k]]

\* spec 4.6: the list calls of a refresh that nothing cuts short: per configured
\* partition, in order, one call per page (the first without a cursor, each later
\* one with the cursor of the page before)
AllCalls(types, api) ==
    Concat([t \in 1..Len(types) |->
        [i \in 1..Len(api.pages[types[t]]) |-> [type |-> types[t], page |-> i]]])

\* spec 4.6: the contacts of every page of every partition, stamped
AllContacts(types, api) ==
    Concat([t \in 1..Len(types) |->
        Concat([i \in 1..Len(api.pages[types[t]]) |->
            [j \in 1..Len(api.pages[types[t]][i]) |->
                Stamp(api.pages[types[t]][i][j], types[t])]])])

\* C7: with no cap, a refresh that no call fails pages each partition up to the
\* page without a next-page token, then takes the next partition, and returns
\* after these finitely many calls
C7_PaginationRunsEachPartitionToItsEnd ==
    (contacts.refreshed /\ contacts.api.unauthorized_at = 0) =>
        contacts.calls = AllCalls(contact_types, contacts.api)

\* C8: a refresh in which no call fails returns the contacts of every page of
\* every partition, in order, each stamped with its partition
C8_ReturnsEveryContactStamped ==
    (contacts.refreshed /\ contacts.api.unauthorized_at = 0) =>
        /\ contacts.out = Value(AllContacts(contact_types, contacts.api))
        /\ contacts.data = AllContacts(contact_types, contacts.api)

\* C9: when the API answers the n-th list call of a refresh with an
\* authorization failure, the refresh issues no further call and returns the
\* empty list as a normal result
C9_UnauthorizedReturnsEmptyList ==
    LET n == contacts.api.unauthorized_at
        all == AllCalls(contact_types, contacts.api)
    IN  (contacts.refreshed /\ n \in 1..Len(all)) =>
            /\ contacts.calls = SubSeq(all, 1, n)
            /\ contacts.out = Value(<<>>)
            /\ contacts.last_update_success

\* C10: after a refresh that failed, the data the consumers see is still the
\* data of the most recent successful refresh, and the coordinator is marked failed
C10_FailedRefreshKeepsGoodData ==
    /\ profile.data = profile.good
    /\ profile.fetch_failed => ~profile.last_update_success
    /\ contacts.data = contacts.good
    /\ contacts.fetch_failed => ~contacts.last_update_success

\* C10 witness: a profile was fetched, then a later refresh failed
C10_Witness ==
    /\ profile.pc = "idle"
    /\ profile.fetch_failed
    /\ profile.good \in Profiles
    /\ profile.data = profile.good
    /\ contacts.fetch_failed

\* C11: whatever an API call or the parsing of its answer raises during a refresh
\* leaves _async_update_data as UpdateFailed, never as the raw exception
C11_ErrorsBecomeUpdateFailed ==
    /\ (profile.refreshed /\ profile.fetch_failed) => profile.out = Raise("UpdateFailed")
    /\ (profile.refreshed /\ ~profile.fetch_failed) => profile.out.k = "value"
    /\ contacts.refreshed =>
           (contacts.out.k = "value" \/ contacts.out = Raise("UpdateFailed"))

\* C11 witness: the profile API call raised and the refresh ended as UpdateFailed,
\* and a contact list refresh has ended
C11_Witness ==
    /\ profile.pc = "idle"
    /\ profile.fetch_failed
    /\ profile.out = Raise("UpdateFailed")
    /\ contacts.refreshed
    /\ contacts.out = Raise("UpdateFailed")

\* C13: the list a refresh returns when no call fails is the contacts fetched, in
\* accumulation order, cut to the cap when one is set and whole when none is: in
\* either case a list that is a prefix of the contacts fetched
C13_ResultIsPrefixOfContactsFetched ==
    LET all == AllContacts(contact_types, contacts.api)
    IN  (contacts.refreshed /\ contacts.api.unauthorized_at = 0) =>
            /\ contacts.out.k = "value"
            /\ Len(contacts.out.v) <= Len(all)
            /\ contacts.out.v = SubSeq(all, 1, Len(contacts.out.v))

\* C15: every call of the webhook handler ends by returning a response; no
\* exception leaves it
C15_HandlerAlwaysReturnsResponse ==
    \A c \in Conns : Finished(c) => conn[c].result.k = "return"

\* ------------------------------------------------------------ redirect_uri claim

\* C14: redirect_uri never yields the internal address: with no external or
\* relay address it fails with NoURLAvailableError, with a relay address it
\* yields that one (also when a direct external address is configured), else the
\* external one; a result is the address followed by the callback path; and
\* valid_external_url tells whether it would succeed
C14_RedirectUriIsExternalRelayFirst ==
    /\ redirect.read =>
           LET cfg == redirect.cfg
           IN  /\ (cfg.external = None /\ cfg.cloud = None) =>
                      redirect.out = Raise("NoURLAvailableError")
               /\ cfg.cloud # None =>
                      redirect.out = Value(<<cfg.cloud.s, AUTH_CALLBACK_PATH>>)
               /\ (cfg.cloud = None /\ cfg.external # None) =>
                      redirect.out = Value(<<cfg.external.s, AUTH_CALLBACK_PATH>>)
    /\ valid_url.read =>
           (valid_url.out <=> (valid_url.cfg.external # None \/ valid_url.cfg.cloud # None))

\* C14 witness: only an internal address was configured and the read failed;
\* now relay and external addresses are configured as well
C14_Witness ==
    /\ redirect.read
    /\ redirect.cfg.internal # None
    /\ redirect.cfg.external = None
    /\ redirect.cfg.cloud = None
    /\ redirect.out = Raise("NoURLAvailableError")
    /\ valid_url.read
    /\ hass_urls.cloud # None
    /\ hass_urls.external # None

\* ------------------------------------------------------------ later webhook claims

\* C16: a request publishes at most one event, and none unless it is
\* authenticated, passes the schema and is not a handshake; the bus grows only
\* by the one event of such a request, so the events on the bus never outnumber
\* the authenticated, schema-valid event requests
C16_AtMostOneEventPerAcceptedRequest ==
    [][(\A c \in Conns :
           conn'[c].pc # "idle" =>
               /\ Len(conn'[c].fired) <= 1
               /\ (conn'[c].fired # <<>> =>
                      Authenticated(conn'[c]) /\ SchemaValidEvent(conn'[c].body)))
       /\ (bus' # bus =>
              \E c \in Conns :
                  /\ conn[c].pc \notin {"idle", "done"}
                  /\ conn'[c].pc = "done"
                  /\ Len(conn'[c].fired) = 1
                  /\ bus' = bus \o conn'[c].fired
                  /\ Authenticated(conn'[c]) /\ SchemaValidEvent(conn'[c].body))
      ]_vars

\* C16 witness: requests that must publish nothing have been handled and the
\* bus is empty: a handshake from an authenticated sender, answered with its
\* signature
C16_Witness ==
    \E c \in Conns :
        /\ Finished(c)
        /\ conn[c].entered
        /\ IsHandshake(conn[c].body)
        /\ conn[c].result.k = "return"
        /\ conn[c].result.resp.status = 200
        /\ conn[c].result.resp.body # NoBody
        /\ conn[c].fired = <<>>
        /\ bus = <<>>

\* what a request that reached the try suite with a well-formed handshake is
\* answered, given the secret it is signed with
HandshakeAnswer(body, secret) ==
    IF Truthy(secret)
    THEN Return(Response(200,
             [plainToken |-> PlainToken(body).s,
              encryptedToken |-> HmacSha256Hex(secret.s, PlainToken(body).s)],
             "application/json"))
    ELSE Return(ResponseUnauthorized)

WellFormedHandshake(body) ==
    /\ IsHandshake(body)
    /\ PlainToken(body).t = "str"
    /\ PlainToken(body).s # ""

\* C19: a request works on the token set and secret in effect when it began:
\* they are read at its start, a reconfiguration while it is in flight does not
\* change them, its authentication is decided against that token set, and its
\* handshake is signed with (or refused for the lack of) that secret
C19_RequestUsesConfigurationAtItsStart ==
    [][\A c \in Conns :
          /\ (conn[c].pc = "idle" /\ conn'[c].pc # "idle") =>
                 /\ conn'[c].vt = verification_tokens
                 /\ conn'[c].secret_token = entry_secret
                 /\ conn'[c].entered => Authenticated(conn'[c])
          /\ (conn[c].pc # "idle" /\ conn'[c].pc # "idle") =>
                 /\ conn'[c].vt = conn[c].vt
                 /\ conn'[c].secret_token = conn[c].secret_token
                 /\ conn'[c].entered = conn[c].entered
          /\ (conn'[c].pc = "done" /\ conn'[c].entered
                  /\ WellFormedHandshake(conn'[c].body)) =>
                 conn'[c].result = HandshakeAnswer(conn'[c].body, conn'[c].secret_token)
      ]_vars

\* C19 witness: a handshake was signed with the secret of the request's start
\* although the entry holds another secret and another token set by now
C19_Witness ==
    \E c \in Conns :
        /\ Finished(c)
        /\ conn[c].entered
        /\ WellFormedHandshake(conn[c].body)
        /\ conn[c].secret_token # None
        /\ entry_secret # None
        /\ entry_secret # conn[c].secret_token
        /\ verification_tokens # conn[c].vt
        /\ conn[c].result = HandshakeAnswer(conn[c].body, conn[c].secret_token)

====
